---- MODULE Spec2Model ----
(***************************************************************************)
(* Model of scripts/dcmdat2niix.py: the wrapper that relays its arguments  *)
(* to dcm2niix, reads the echo times of every converted image from the     *)
(* raw DICOM text, decodes the neighbouring .dat files and writes one      *)
(* image + JSON pair per echo.                                             *)
(*                                                                         *)
(* Strings and paths are sequences of one-character strings, so that       *)
(* Python's substring test, str.replace and Path.with_suffix are computed  *)
(* and not assumed.  A file extension (".nii", ".gz", ".json") is one      *)
(* element of such a sequence.  Optional values (None) are sequences of    *)
(* length 0 or 1.                                                          *)
(***************************************************************************)
EXTENDS Integers, Sequences, FiniteSets, TLC

\* ------------------------------------------------------------------ bounds
MaxArgs == 3
MaxRaw == 5
MaxTEVal == 3
MaxImages == 2

\* The number of lines read after the alTE tag: lines[i + 1 : i + 9].
TELines == 8
\* float(...) / 1e6: microseconds per second.
MicroPerSec == 1000000

\* ------------------------------------------------------------ Python lists
Range(s) == {s[j] : j \in 1..Len(s)}

SeqsUpTo(S, n) == UNION {[1..m -> S] : m \in 0..n}

Min2(a, b) == IF a < b THEN a ELSE b

\* list.insert(idx, x), idx zero-based: a negative idx counts from the end and
\* is clamped to 0, an idx beyond the end is clamped to len(s).
ListInsert(s, idx, x) ==
    LET n == Len(s)
        j == IF idx < 0 THEN (IF idx + n < 0 THEN 0 ELSE idx + n)
             ELSE Min2(idx, n)
    IN  SubSeq(s, 1, j) \o <<x>> \o SubSeq(s, j + 1, n)

\* list.index(x), zero-based, for x in s.
ListIndex(s, x) == (CHOOSE j \in 1..Len(s) : s[j] = x /\ \A m \in 1..(j - 1) : s[m] # x) - 1

\* ----------------------------------------------------------- Python strings
\* sub occurs in s starting at (one-based) position p.
OccursAt(s, sub, p) ==
    /\ p + Len(sub) - 1 <= Len(s)
    /\ \A j \in 1..Len(sub) : s[p + j - 1] = sub[j]

\* `sub in s`
Contains(s, sub) == \E p \in 1..(Len(s) + 1) : OccursAt(s, sub, p)

\* s.replace(old, new): every non-overlapping occurrence, scanning from the left.
RECURSIVE ReplaceFrom(_, _, _, _)
ReplaceFrom(s, old, new, p) ==
    IF p > Len(s) THEN <<>>
    ELSE IF OccursAt(s, old, p)
         THEN new \o ReplaceFrom(s, old, new, p + Len(old))
         ELSE <<s[p]>> \o ReplaceFrom(s, old, new, p + 1)

Replace(s, old, new) == ReplaceFrom(s, old, new, 1)

\* str(n) for the one-digit numbers the echo loop produces (at most 8 echoes).
Digit(n) == <<"0", "1", "2", "3", "4", "5", "6", "7", "8", "9">>[n + 1]

\* ------------------------------------------------------------ pathlib.Path
Extensions == {".nii", ".gz", ".json"}

\* Path.name: what follows the last "/".
RECURSIVE PathName(_)
PathName(p) ==
    IF p = <<>> \/ p[Len(p)] = "/" THEN <<>>
    ELSE PathName(SubSeq(p, 1, Len(p) - 1)) \o <<p[Len(p)]>>

\* Path.with_suffix(suf): only the LAST extension of the name is replaced.
WithSuffix(p, suf) ==
    IF p # <<>> /\ p[Len(p)] \in Extensions
    THEN SubSeq(p, 1, Len(p) - 1) \o suf
    ELSE p \o suf

NiiSuffix == <<".nii">>
NiiGzSuffix == <<".nii", ".gz">>
JsonSuffix == <<".json">>

\* --------------------------------------------------------------- variables
VARIABLES
    argv,            \* sys.argv[1:] without the help flag (never modified)
    help,            \* args.help
    world,           \* what is on disk beside the program: one record per image
    other_args,      \* the list relayed to the converter
    converter_calls, \* the argument lists dicom2nifti was called with
    mkdirs,          \* directories created by output_dir.mkdir
    dicoms_nii_map,  \* the converter's result, in iteration order
    fs,              \* the files of the output directories: path -> content
    pc, err, stdout,
    k,               \* position of the image loop in dicoms_nii_map
    TEs, metadata, heap,
    nifti, nifti_json, nifti_img_path, suffix,
    echo_prefix, i

vars == <<argv, help, world, other_args, converter_calls, mkdirs, dicoms_nii_map,
          fs, pc, err, stdout, k, TEs, metadata, heap, nifti, nifti_json,
          nifti_img_path, suffix, echo_prefix, i>>

argVars == <<argv, help, world>>
imgVars == <<TEs, metadata, heap, nifti, nifti_json, nifti_img_path, suffix,
             echo_prefix, i>>

\* ------------------------------------------------------------------- world
\* One record per image the converter will produce (the DICOM it comes from,
\* the files the converter writes for it, the .dat files beside the DICOM):
\*   dir, base, marker, ph  the output path dir + base + marker + ph
\*   tag, raw               the DICOM text: is the alTE line there, and the
\*                          values (microseconds) of the lines that follow it
\*   hasJson, imgKind       which files the converter wrote
\*   shape                  nifti_img.shape
\*   ndat, datFrames        number of .dat files beside the DICOM, and the size
\*                          of the last axis of dat_to_array's result
\*   sane                   outcome of the np.isclose comparison
\*   itt, series            the JSON: ImageTypeText (optional), another field
MarkerStr(m) ==
    CASE m = "none" -> <<>>
      [] m = "e"    -> <<"_", "e", "1">>
      [] m = "echo" -> <<"_", "e", "c", "h", "o", "1">>

PhStr(ph) == IF ph THEN <<"_", "p", "h">> ELSE <<>>

ImageName(w) == w.base \o MarkerStr(w.marker) \o PhStr(w.ph)

\* The key of dicoms_nii_map: the output path without extension.
ImageKey(w) == w.dir \o ImageName(w)

\* float(...) / 1e6 of a whole number of microseconds: a fraction.
MicroToSec(v) == [num |-> v, den |-> MicroPerSec]

\* a - b and a > 0 for two such fractions (same denominator).
FracSub(a, b) == [num |-> a.num - b.num, den |-> a.den]
FracPos(a) == a.num > 0

\* The JSON document the converter wrote for image w.
ConverterDoc(w) ==
    LET d == [EchoTime |-> MicroToSec(IF w.raw = <<>> THEN 0 ELSE w.raw[1]),
              ConversionSoftware |-> "dcm2niix",
              SeriesNumber |-> w.series]
    IN  IF w.itt = <<>> THEN d ELSE d @@ [ImageTypeText |-> w.itt[1]]

ImageFile(src, img, echo) ==
    [kind |-> "image", pix |-> <<[src |-> src, img |-> img, echo |-> echo]>>, doc |-> <<>>]

JsonFile(doc) == [kind |-> "json", pix |-> <<>>, doc |-> <<doc>>]

\* The files the converter leaves for image j of the world.
ConverterFiles(wd, j) ==
    LET w == wd[j]
        key == ImageKey(w)
        js == IF w.hasJson THEN {WithSuffix(key, JsonSuffix)} ELSE {}
        im == CASE w.imgKind = "nii"  -> {WithSuffix(key, NiiSuffix)}
                [] w.imgKind = "gz"   -> {WithSuffix(key, NiiGzSuffix)}
                [] w.imgKind = "none" -> {}
    IN  [p \in js \cup im |->
            IF p \in js THEN JsonFile(ConverterDoc(w)) ELSE ImageFile("dcm2niix", j, 0)]

RECURSIVE ConverterOutput(_, _)
ConverterOutput(wd, n) ==
    IF n = 0 THEN << >> ELSE ConverterOutput(wd, n - 1) @@ ConverterFiles(wd, n)

\* The directories that exist when the echo loop writes: those the converter
\* wrote into, and a sibling directory that was there before the run.
ExtraDirs == { <<"/", "s", "e", "2", "/">> }
ExistingDirs == {world[j].dir : j \in 1..Len(world)} \cup ExtraDirs

\* Path.parent, as a string with its trailing "/".
PathParent(p) == SubSeq(p, 1, Len(p) - Len(PathName(p)))

\* shutil.move(src, dst) and to_filename / open(..., "w").
MoveFile(f, src, dst) ==
    [p \in (DOMAIN f \ {src}) \cup {dst} |-> IF p = dst THEN f[src] ELSE f[p]]

WriteFile(f, dst, content) ==
    [p \in DOMAIN f \cup {dst} |-> IF p = dst THEN content ELSE f[p]]

\* ------------------------------------------------------------ argument relay
\* A test that looks at the last argument only.
HasVerboseLast(args) == args # <<>> /\ args[Len(args)] = "-v"

\* `"-v" in other_args`
HasVerbose(args) == "-v" \in Range(args)

\* A relay that appends the flag instead of inserting it before the last argument.
InsertVerboseAtEnd(args) == args \o <<"-v", "1">>

\* idx = len(other_args) - 1; insert(idx, "1"); insert(idx, "-v")
InsertVerbose(args) ==
    LET idx == Len(args) - 1
    IN  ListInsert(ListInsert(args, idx, "1"), idx, "-v")

Fail(e) ==
    /\ pc' = "error"
    /\ err' = e

Help ==
    /\ pc = "start"
    /\ help
    /\ converter_calls' = Append(converter_calls, <<"-h">>)
    /\ pc' = "exit0"
    /\ UNCHANGED <<argVars, other_args, mkdirs, dicoms_nii_map, fs, err, stdout, k, imgVars>>

Relay ==
    /\ pc = "start"
    /\ ~help
    /\ IF ~HasVerbose(other_args)
       THEN /\ other_args' = InsertVerbose(other_args)
            /\ pc' = "relayed"
            /\ err' = err
       ELSE /\ Fail("ValueError: verbose")
            /\ other_args' = other_args
    /\ UNCHANGED <<argVars, converter_calls, mkdirs, dicoms_nii_map, fs, stdout, k, imgVars>>

MakeOutputDir ==
    /\ pc = "relayed"
    /\ IF "-o" \in Range(other_args)
       THEN LET o_index == ListIndex(other_args, "-o")
            IN  IF o_index + 1 >= Len(other_args)
                THEN /\ Fail("IndexError: -o")
                     /\ mkdirs' = mkdirs
                ELSE /\ mkdirs' = mkdirs \cup {other_args[o_index + 2]}
                     /\ pc' = "invoke"
                     /\ err' = err
       ELSE /\ pc' = "invoke"
            /\ UNCHANGED <<mkdirs, err>>
    /\ UNCHANGED <<argVars, other_args, converter_calls, dicoms_nii_map, fs, stdout, k, imgVars>>

Convert ==
    /\ pc = "invoke"
    /\ converter_calls' = Append(converter_calls, other_args)
    /\ dicoms_nii_map' = [j \in 1..Len(world) |-> [nifti |-> ImageKey(world[j]), dicom |-> j]]
    /\ fs' = ConverterOutput(world, Len(world))
    /\ pc' = "loop"
    /\ UNCHANGED <<argVars, other_args, mkdirs, err, stdout, k, imgVars>>

\* --------------------------------------------------------------- image loop
\* The image being processed, and the world record of its DICOM.
CurDicom == world[dicoms_nii_map[k].dicom]

NextImage ==
    /\ pc = "loop"
    /\ k < Len(dicoms_nii_map)
    /\ k' = k + 1
    /\ nifti' = dicoms_nii_map[k + 1].nifti
    /\ pc' = "te"
    /\ UNCHANGED <<argVars, other_args, converter_calls, mkdirs, dicoms_nii_map, fs, err,
                   stdout, TEs, metadata, heap, nifti_json, nifti_img_path, suffix,
                   echo_prefix, i>>

Done ==
    /\ pc = "loop"
    /\ k = Len(dicoms_nii_map)
    /\ stdout' = Append(stdout, [msg |-> "Done.", img |-> 0])
    /\ pc' = "done"
    /\ UNCHANGED <<argVars, other_args, converter_calls, mkdirs, dicoms_nii_map, fs, err,
                   k, imgVars>>

\* ------------------------------------------------------ echo-time extraction
\* [float(...) / 1e6 for l in lines[i + 1 : i + 9]]
ParseTEs(raw) == [j \in 1..Min2(Len(raw), TELines) |-> MicroToSec(raw[j])]

\* TEs[1:] - TEs[0:-1]
Diff(t) == [j \in 1..(Len(t) - 1) |-> FracSub(t[j + 1], t[j])]

\* diff > 0, elementwise
DiffPositive(d) == [j \in 1..Len(d) |-> FracPos(d[j])]

\* a[mask]: the elements of a where the boolean mask holds.
RECURSIVE BoolIndex(_, _)
BoolIndex(a, mask) ==
    IF a = <<>> THEN <<>>
    ELSE BoolIndex(SubSeq(a, 1, Len(a) - 1), SubSeq(mask, 1, Len(mask) - 1))
         \o (IF mask[Len(a)] THEN <<a[Len(a)]>> ELSE <<>>)

\* A monotonic-keep filter: a value is kept when it exceeds the last KEPT value.
RECURSIVE MonotoneKeep(_)
MonotoneKeep(t) ==
    IF Len(t) <= 1 THEN t
    ELSE LET kept == MonotoneKeep(SubSeq(t, 1, Len(t) - 1))
         IN  IF FracPos(FracSub(t[Len(t)], kept[Len(kept)])) THEN Append(kept, t[Len(t)]) ELSE kept

\* A filter that keeps a value equal to its predecessor (diff >= 0).
KeepNonDecreasing(t) ==
    <<t[1]>> \o BoolIndex(Tail(t), [j \in 1..(Len(t) - 1) |-> t[j + 1].num >= t[j].num])

\* diff = TEs[1:] - TEs[0:-1]; TEs = np.insert(TEs[1:][diff > 0], 0, TEs[0])
ValidTEs(t) == <<t[1]>> \o BoolIndex(Tail(t), DiffPositive(Diff(t)))

ExtractTEs ==
    /\ pc = "te"
    /\ LET w == CurDicom
       IN  CASE w.tag = "absent" ->
                  /\ TEs' = <<>>
                  /\ pc' = "json"
                  /\ err' = err
             [] w.tag = "garbled" ->
                  /\ Fail("ValueError: float")
                  /\ TEs' = <<>>
             [] w.tag = "ok" ->
                  LET t == ParseTEs(w.raw)
                  IN  IF t = <<>>
                      THEN /\ Fail("IndexError: TEs[0]")
                           /\ TEs' = <<t>>
                      ELSE /\ TEs' = <<ValidTEs(t)>>
                           /\ pc' = "json"
                           /\ err' = err
    /\ UNCHANGED <<argVars, other_args, converter_calls, mkdirs, dicoms_nii_map, fs, stdout,
                   k, metadata, heap, nifti, nifti_json, nifti_img_path, suffix,
                   echo_prefix, i>>

\* ------------------------------------------------------------ loading files
\* json.load: the ImageTypeText list becomes an object of the heap, and the
\* dict holds a reference to it.
LoadDoc(doc, ref) ==
    IF "ImageTypeText" \in DOMAIN doc THEN [doc EXCEPT !.ImageTypeText = ref] ELSE doc

LoadHeap(doc, ref) ==
    IF "ImageTypeText" \in DOMAIN doc THEN (ref :> doc.ImageTypeText) ELSE << >>

\* json.dump: the document with the list the reference points to.
Serialize(d, h) ==
    IF "ImageTypeText" \in DOMAIN d THEN [d EXCEPT !.ImageTypeText = h[d.ImageTypeText]] ELSE d

LoadJson ==
    /\ pc = "json"
    /\ LET path == WithSuffix(nifti, JsonSuffix)
       IN  /\ nifti_json' = path
           /\ IF path \notin DOMAIN fs
              THEN /\ Fail("ValueError: json")
                   /\ UNCHANGED <<metadata, heap>>
              ELSE /\ metadata' = <<LoadDoc(fs[path].doc[1], 1)>>
                   /\ heap' = LoadHeap(fs[path].doc[1], 1)
                   /\ pc' = "nifti"
                   /\ err' = err
    /\ UNCHANGED <<argVars, other_args, converter_calls, mkdirs, dicoms_nii_map, fs, stdout,
                   k, TEs, nifti, nifti_img_path, suffix, echo_prefix, i>>

LoadNifti ==
    /\ pc = "nifti"
    /\ LET p1 == WithSuffix(nifti, NiiSuffix)
           p2 == WithSuffix(nifti, NiiGzSuffix)
       IN  IF p1 \in DOMAIN fs
           THEN /\ nifti_img_path' = p1
                /\ suffix' = NiiSuffix
                /\ IF TEs = <<>>
                   THEN Fail("AttributeError: TEs")
                   ELSE pc' = "dat" /\ err' = err
           ELSE /\ nifti_img_path' = p2
                /\ suffix' = NiiGzSuffix
                /\ IF p2 \notin DOMAIN fs
                   THEN Fail("ValueError: nifti")
                   ELSE IF TEs = <<>>
                        THEN Fail("AttributeError: TEs")
                        ELSE pc' = "dat" /\ err' = err
    /\ UNCHANGED <<argVars, other_args, converter_calls, mkdirs, dicoms_nii_map, fs, stdout,
                   k, TEs, metadata, heap, nifti, nifti_json, echo_prefix, i>>

\* ---------------------------------------------------------- .dat discovery
\* A lookup that never reports an empty directory.
NoDatFilesNever(w) == FALSE

\* len(dat_files) == 0
NoDatFiles(w) == w.ndat = 0

FindDat ==
    /\ pc = "dat"
    /\ IF NoDatFiles(CurDicom)
       THEN /\ stdout' = Append(stdout, [msg |-> "Could not find any .dat files", img |-> k])
            /\ pc' = "loop"
       ELSE /\ stdout' = Append(stdout, [msg |-> "Found .dat files", img |-> k])
            /\ pc' = "check"
    /\ UNCHANGED <<argVars, other_args, converter_calls, mkdirs, dicoms_nii_map, fs, err,
                   k, imgVars>>

\* ------------------------------------------------------------------ checks
\* shape, padded: if len(shape) == 3: shape = (*shape, 1)
PaddedShape(sh) == IF Len(sh) = 3 THEN Append(sh, 1) ELSE sh

\* A frame-count check that never fires.
FramesMismatchIgnored(w) == FALSE

\* data_array.shape[-1] != shape[-1]
FramesMismatch(w) == w.datFrames # PaddedShape(w.shape)[Len(PaddedShape(w.shape))]

\* not np.all(np.isclose(normalize(...), normalize(...)))
SanityFails(w) == ~w.sane

Check ==
    /\ pc = "check"
    /\ IF FramesMismatch(CurDicom)
       THEN /\ Fail("ValueError: frames")
            /\ UNCHANGED <<stdout, echo_prefix, i>>
       ELSE IF SanityFails(CurDicom)
            THEN /\ Fail("ValueError: sanity")
                 /\ UNCHANGED <<stdout, echo_prefix, i>>
            ELSE /\ stdout' = Append(stdout, [msg |-> "Saving nifti files...", img |-> k])
                 /\ echo_prefix' = <<"e">>
                 /\ i' = 0
                 /\ pc' = "echo"
                 /\ err' = err
    /\ UNCHANGED <<argVars, other_args, converter_calls, mkdirs, dicoms_nii_map, fs,
                   k, TEs, metadata, heap, nifti, nifti_json, nifti_img_path, suffix>>

\* ------------------------------------------------------ per-echo materialization
E1 == <<"e", "1">>
Echo1 == <<"e", "c", "h", "o", "1">>
Ph == <<"_", "p", "h">>
TE == <<"T", "E">>

\* dict.copy(): a new dict with the same values; a list value is the same
\* object (the same reference into the heap), not a copy of it.
DictCopy(d) == d

\* d[key] = value on a dict
DictSet(d, key, value) == (key :> value) @@ d

\* if "_ph" in nifti.name: nib.Nifti1Image(data_array[..., 0, :], ...).to_filename(nifti_img_path)
ResavePhase(f, nif, imgpath) ==
    IF Contains(PathName(nif), Ph) THEN WriteFile(f, imgpath, ImageFile("dat", k, 0)) ELSE f

\* Path(str(nifti).replace("_ph", "_e1_ph")) or Path(str(nifti) + "_e1")
FirstEchoName(nif) ==
    IF Contains(PathName(nif), Ph)
    THEN Replace(nif, Ph, <<"_">> \o E1 \o Ph)
    ELSE nif \o <<"_">> \o E1

\* "echo1" in nifti.name, tested when "e1" is not in nifti.name
HasSynonymMarker(name) == Contains(name, Echo1)

EchoFirst ==
    /\ pc = "echo"
    /\ i = 0
    /\ i < Len(TEs[1])
    /\ IF ~Contains(PathName(nifti), E1)
       THEN IF HasSynonymMarker(PathName(nifti))
            THEN /\ echo_prefix' = <<"e", "c", "h", "o">>
                 /\ i' = 1
                 /\ UNCHANGED <<nifti, nifti_img_path, nifti_json, fs, pc, err>>
            ELSE LET renamed == FirstEchoName(nifti)
                     img == WithSuffix(renamed, suffix)
                     js == WithSuffix(renamed, JsonSuffix)
                 IN  /\ nifti' = renamed
                     /\ nifti_img_path' = img
                     /\ nifti_json' = js
                     /\ echo_prefix' = echo_prefix
                     /\ IF PathParent(img) \notin ExistingDirs
                        THEN /\ Fail("FileNotFoundError")
                             /\ UNCHANGED <<fs, i>>
                        ELSE /\ fs' = ResavePhase(
                                        MoveFile(MoveFile(fs, nifti_img_path, img), nifti_json, js),
                                        renamed, img)
                             /\ i' = 1
                             /\ UNCHANGED <<pc, err>>
       ELSE /\ fs' = ResavePhase(fs, nifti, nifti_img_path)
            /\ i' = 1
            /\ UNCHANGED <<nifti, nifti_img_path, nifti_json, echo_prefix, pc, err>>
    /\ UNCHANGED <<argVars, other_args, converter_calls, mkdirs, dicoms_nii_map, stdout,
                   k, TEs, metadata, heap, suffix>>

\* the positions t with 'TE' in ImageTypeText[t]
TEPositions(lst) == {j \in 1..Len(lst) : Contains(lst[j], TE)}

SetMin(Q) == CHOOSE m \in Q : \A n \in Q : m <= n

\* te_idx = [...][0]; ImageTypeText[te_idx] = f"TE{i + 1}"; except IndexError: pass
Relabel(lst, n) ==
    IF TEPositions(lst) = {} THEN lst
    ELSE [lst EXCEPT ![SetMin(TEPositions(lst))] = TE \o <<Digit(n)>>]

EchoNext ==
    /\ pc = "echo"
    /\ i >= 1
    /\ i < Len(TEs[1])
    /\ LET t == TEs[1][i + 1]
           output_base == Replace(nifti, echo_prefix \o <<"1">>, echo_prefix \o <<Digit(i + 1)>>)
           metadata_copy == DictSet(DictSet(DictCopy(metadata[1]), "EchoTime", t),
                                    "ConversionSoftware", "dcmdat2niix")
           output_path == WithSuffix(output_base, suffix)
           output_json == WithSuffix(output_path, JsonSuffix)
       IN  IF "ImageTypeText" \notin DOMAIN metadata_copy
           THEN /\ Fail("KeyError: ImageTypeText")
                /\ UNCHANGED <<fs, heap, i>>
           ELSE LET ref == metadata_copy.ImageTypeText
                    heap2 == [heap EXCEPT ![ref] = Relabel(heap[ref], i + 1)]
                IN  /\ heap' = heap2
                    /\ IF PathParent(output_path) \notin ExistingDirs
                       THEN /\ Fail("FileNotFoundError")
                            /\ UNCHANGED <<fs, i>>
                       ELSE /\ fs' = WriteFile(WriteFile(fs, output_path, ImageFile("dat", k, i)),
                                               output_json, JsonFile(Serialize(metadata_copy, heap2)))
                            /\ i' = i + 1
                            /\ UNCHANGED <<pc, err>>
    /\ UNCHANGED <<argVars, other_args, converter_calls, mkdirs, dicoms_nii_map, stdout,
                   k, TEs, metadata, nifti, nifti_json, nifti_img_path, suffix, echo_prefix>>

EchoLoopEnd ==
    /\ pc = "echo"
    /\ i >= Len(TEs[1])
    /\ pc' = "loop"
    /\ UNCHANGED <<argVars, other_args, converter_calls, mkdirs, dicoms_nii_map, fs, err,
                   stdout, k, imgVars>>

\* ------------------------------------------------------------ specifications
Tokens == {"-v", "-o", "out", "in"}
Tags == {"absent", "garbled", "ok"}
DirD == <<"/", "d", "/">>
DirE1 == <<"/", "s", "e", "1", "/">>
Markers == {"none", "e", "echo"}

\* ImageTypeText values: magnitude/phase label with or without a TE label.
IttM == <<"M">>
IttTE1 == <<"T", "E", "1">>
IttFiltered == <<"F", "I", "L", "T", "E", "R", "E", "D">>
IttND == <<"N", "D">>

\* A two-echo magnitude image with everything in place.
GoodImage ==
    [dir |-> DirD, base |-> <<"x">>, marker |-> "none", ph |-> FALSE,
     tag |-> "ok", raw |-> <<1, 2>>, hasJson |-> TRUE, imgKind |-> "nii",
     shape |-> <<2, 2, 2>>, ndat |-> 1, datFrames |-> 1, sane |-> TRUE,
     itt |-> << <<IttM, IttTE1, IttND>> >>, series |-> 7]

InitWith(Args, Worlds) ==
    /\ argv \in Args
    /\ help \in BOOLEAN
    /\ world \in Worlds
    /\ other_args = argv
    /\ converter_calls = <<>>
    /\ mkdirs = {}
    /\ dicoms_nii_map = <<>>
    /\ fs = << >>
    /\ pc = "start"
    /\ err = ""
    /\ stdout = <<>>
    /\ k = 0
    /\ TEs = <<>>
    /\ metadata = <<>>
    /\ heap = << >>
    /\ nifti = <<>>
    /\ nifti_json = <<>>
    /\ nifti_img_path = <<>>
    /\ suffix = <<>>
    /\ echo_prefix = <<>>
    /\ i = 0

Next ==
    \/ Help
    \/ Relay
    \/ MakeOutputDir
    \/ Convert
    \/ NextImage
    \/ ExtractTEs
    \/ LoadJson
    \/ LoadNifti
    \/ FindDat
    \/ Check
    \/ EchoFirst
    \/ EchoNext
    \/ EchoLoopEnd
    \/ Done

\* Every argument list, one good image.
ArgLists(n) == SeqsUpTo(Tokens, n)
InitArgs == InitWith(ArgLists(MaxArgs), {<<GoodImage>>})
SpecArgs == InitArgs /\ [][Next]_vars

\* Every text after the alTE tag, one image.
RawLists(n, v) == SeqsUpTo(0..v, n)
TEWorlds(n, v) ==
    {<<[GoodImage EXCEPT !.raw = r]>> : r \in RawLists(n, v)}
    \cup {<<[GoodImage EXCEPT !.tag = tg, !.raw = <<>>]>> : tg \in Tags \ {"ok"}}
InitTE == InitWith({<<"in">>}, TEWorlds(MaxRaw, MaxTEVal))
SpecTE == InitTE /\ [][Next]_vars

\* Every naming case, both image suffixes, every kind of ImageTypeText, one
\* to MaxRaw echoes; one image.
RECURSIVE Ramp(_)
Ramp(n) == IF n = 0 THEN <<>> ELSE Append(Ramp(n - 1), n)

IttChoices ==
    {<<>>,                                  \* no ImageTypeText key
     << <<>> >>,                            \* an empty list
     << <<IttM, IttND>> >>,                 \* no entry with "TE"
     << <<IttM, IttTE1, IttND>> >>,
     << <<IttFiltered, IttTE1>> >>,         \* two entries with "TE"
     << <<IttTE1, IttTE1>> >>}

EchoWorlds(maxEchoes) ==
    {<<[GoodImage EXCEPT !.dir = d, !.marker = m, !.ph = p, !.imgKind = g,
                         !.itt = t, !.raw = Ramp(n)]>> :
        d \in {DirD, DirE1}, m \in Markers, p \in BOOLEAN, g \in {"nii", "gz"},
        t \in IttChoices, n \in 1..maxEchoes}
InitEcho == InitWith({<<"in">>}, EchoWorlds(MaxRaw))
SpecEcho == InitEcho /\ [][Next]_vars

\* Up to MaxImages images of one run, each with at most two things wrong.
Bases == << <<"x">>, <<"y">>, <<"z">>, <<"w">> >>

Defects(w) ==
    {c \in {"tag", "json", "image", "dat", "frames", "sanity"} :
        \/ c = "tag" /\ w.tag # "ok"
        \/ c = "json" /\ ~w.hasJson
        \/ c = "image" /\ w.imgKind = "none"
        \/ c = "dat" /\ w.ndat = 0
        \/ c = "frames" /\ w.datFrames # 1
        \/ c = "sanity" /\ ~w.sane}

LoopImages(j, m) ==
    {w \in {[GoodImage EXCEPT !.base = Bases[j], !.series = j, !.marker = m,
                              !.ph = (j % 2 = 0), !.tag = tg, !.hasJson = hj,
                              !.imgKind = g, !.ndat = nd, !.datFrames = df, !.sane = sn] :
              tg \in {"ok", "absent"}, hj \in BOOLEAN, g \in {"nii", "none"},
              nd \in {0, 1}, df \in {1, 2}, sn \in BOOLEAN} :
        Cardinality(Defects(w)) <= 2}

\* The runs of n images named with marker m.
RECURSIVE WorldsOf(_, _)
WorldsOf(n, m) ==
    IF n = 0 THEN {<<>>}
    ELSE {Append(wd, w) : wd \in WorldsOf(n - 1, m), w \in LoopImages(n, m)}

LoopWorlds(maxImages) == UNION {WorldsOf(n, m) : n \in 1..maxImages, m \in {"none", "e"}}
InitLoop == InitWith({<<"in">>}, LoopWorlds(MaxImages))
SpecLoop == InitLoop /\ [][Next]_vars

\* ------------------------------------------------------------------ claims
\* The locals of the image loop belong to image k.
InImage == k >= 1 /\ pc \in {"json", "nifti", "dat", "check", "echo"}

\* The relayed list as the specification words it: the original list with
\* "-v", "1" put immediately before its last argument.
ExpectedRelay(a) ==
    IF a = <<>> THEN <<"-v", "1">>
    ELSE SubSeq(a, 1, Len(a) - 1) \o <<"-v", "1">> \o <<a[Len(a)]>>

PastRelay == pc \notin {"start", "relayed", "invoke"}

\* "-o" occurs in the list, and only as its last argument.
OnlyOutputFlagIsLast(a) ==
    /\ a # <<>>
    /\ a[Len(a)] = "-o"
    /\ \A j \in 1..(Len(a) - 1) : a[j] # "-o"

\* C1 as stated: for every argument list without "-v" (no help flag), the
\* converter is passed the original list with "-v", "1" inserted before the
\* final argument.
C1_Original ==
    (~help /\ "-v" \notin Range(argv) /\ PastRelay)
        => converter_calls = <<ExpectedRelay(argv)>>

\* C1, amended: for every argument list without "-v" (no help flag) the relayed
\* list is the original list with "-v", "1" inserted before the final argument,
\* and it is what the converter is called with, once, unless the only "-o" of
\* the list is its last argument: then reading the directory operand fails
\* with an IndexError and the converter is not called.
C1_RelayInsertsVerbose ==
    (~help /\ "-v" \notin Range(argv)) =>
        /\ pc # "start" => other_args = ExpectedRelay(argv)
        /\ PastRelay =>
              IF OnlyOutputFlagIsLast(argv)
              THEN pc = "error" /\ err = "IndexError: -o" /\ converter_calls = <<>>
              ELSE converter_calls = <<ExpectedRelay(argv)>>

C1_Witness ==
    /\ pc = "loop"
    /\ "-v" \notin Range(argv)
    /\ Len(argv) >= 2
    /\ converter_calls = <<ExpectedRelay(argv)>>

\* C2 as stated: for every argument list containing "-v" the run fails, the
\* converter is never invoked and no output directory is created, whatever
\* other flags (help included) are present.
C2_Original ==
    "-v" \in Range(argv) =>
        /\ converter_calls = <<>>
        /\ mkdirs = {}
        /\ pc # "start" => pc = "error"

\* C2, amended: for every argument list containing "-v" and no help flag the
\* run fails with the verbose error, the converter is never invoked and no
\* output directory is created, whatever other flags ("-o" included) are
\* present; with a help flag the run calls the converter for its help text
\* and exits successfully, "-v" or not.
C2_VerboseRejected ==
    /\ (~help /\ "-v" \in Range(argv)) =>
          /\ converter_calls = <<>>
          /\ mkdirs = {}
          /\ pc # "start" => (pc = "error" /\ err = "ValueError: verbose")
    /\ (help /\ pc # "start") =>
          (pc = "exit0" /\ converter_calls = << <<"-h">> >> /\ mkdirs = {})

C2_Witness ==
    /\ pc = "error"
    /\ ~help
    /\ "-v" \in Range(argv)
    /\ \E j \in 1..(Len(argv) - 1) : argv[j] = "-o" /\ argv[j + 1] # "-v"

\* The positions of the raw list the pairwise rule keeps: the first, and every
\* later one whose value exceeds the value just before it.
KeptPositions(r) == {1} \cup {j \in 2..Len(r) : r[j] > r[j - 1]}

\* The n-th smallest element of a set of numbers.
NthOf(Q, n) == CHOOSE m \in Q : Cardinality({x \in Q : x <= m}) = n

\* C3: the kept echo times are r[0] followed by exactly those r[k], k >= 1,
\* with r[k] > r[k-1] (the raw predecessor), in the original order.
C3_PairwiseFilter ==
    (InImage /\ CurDicom.tag = "ok") =>
        LET r == CurDicom.raw
            t == TEs[1]
        IN  /\ Len(r) >= 1 /\ Len(r) <= TELines
            /\ Len(t) = Cardinality(KeptPositions(r))
            /\ \A j \in 1..Len(t) : t[j] = MicroToSec(r[NthOf(KeptPositions(r), j)])

\* raw [10, 10, 20, 15, 30] in rank order is [0, 0, 2, 1, 3]; kept [0, 2, 3].
C3_Witness ==
    /\ InImage
    /\ CurDicom.tag = "ok"
    /\ CurDicom.raw = <<0, 0, 2, 1, 3>>
    /\ TEs = << <<MicroToSec(0), MicroToSec(2), MicroToSec(3)>> >>

StrictlyIncreasing(t) == \A j \in 1..(Len(t) - 1) : t[j].num < t[j + 1].num

\* C4 as stated: the extracted echo-time list is strictly increasing for every
\* raw sequence.
C4_Original == (InImage /\ CurDicom.tag = "ok") => StrictlyIncreasing(TEs[1])

\* No raw value rises after an earlier raw value fell.
NoRiseAfterFall(r) ==
    \A a \in 1..(Len(r) - 1) : \A b \in (a + 1)..(Len(r) - 1) :
        r[a + 1] < r[a] => r[b + 1] <= r[b]

\* C4, amended: the extracted echo-time list is strictly increasing, without
\* duplicates, whenever no raw value rises after an earlier fall (rising
\* values followed by repeated or zero padding).
C4_IncreasingWithoutRiseAfterFall ==
    (InImage /\ CurDicom.tag = "ok" /\ NoRiseAfterFall(CurDicom.raw))
        => StrictlyIncreasing(TEs[1])

C4_Witness ==
    /\ InImage
    /\ CurDicom.tag = "ok"
    /\ CurDicom.raw = <<1, 2, 3, 0, 0>>
    /\ Len(TEs[1]) = 3

\* The files on disk that belong to image j: images carry the image they were
\* made for, JSON documents its SeriesNumber.
FilesOf(j) ==
    {p \in DOMAIN fs :
        IF fs[p].kind = "image" THEN fs[p].pix[1].img = j
        ELSE fs[p].doc[1].SeriesNumber = world[j].series}

\* The files of image j are exactly those the converter wrote, unchanged.
AsConverterLeft(j) ==
    LET cf == ConverterFiles(world, j)
    IN  /\ FilesOf(j) = DOMAIN cf
        /\ \A p \in DOMAIN cf : fs[p] = cf[p]

SkipMsg(j) == [msg |-> "Could not find any .dat files", img |-> j]

\* Image j is skipped softly: no error while it is processed, the skip is
\* logged, its files stay as the converter left them, and the loop goes on.
SoftSkipAt(j) ==
    /\ k = j => pc \notin {"error", "check", "echo"}
    /\ (k > j \/ (k = j /\ pc \in {"loop", "done"})) => SkipMsg(j) \in Range(stdout)
    /\ k >= j => AsConverterLeft(j)
    /\ (k = j /\ pc = "loop" /\ j < Len(dicoms_nii_map)) => ENABLED NextImage
    /\ pc = "done" => k = Len(dicoms_nii_map)

\* C5 as stated: an image with zero .dat files is skipped softly whatever its
\* DICOM contains and wherever it stands in the mapping.
C5_Original ==
    \A j \in 1..Len(dicoms_nii_map) : world[j].ndat = 0 => SoftSkipAt(j)

\* The steps before the .dat lookup succeed for this image.
ReachesDatLookup(w) ==
    /\ w.tag = "ok"
    /\ w.raw # <<>>
    /\ w.hasJson
    /\ w.imgKind # "none"

\* C5, amended: an image with zero .dat files whose DICOM holds the timing tag
\* followed by at least one parsable value, and whose JSON and image files
\* exist, is skipped softly, wherever it stands in the mapping.
C5_SoftSkip ==
    \A j \in 1..Len(dicoms_nii_map) :
        (world[j].ndat = 0 /\ ReachesDatLookup(world[j])) => SoftSkipAt(j)

C5_Witness ==
    /\ pc = "done"
    /\ Len(world) = 2
    /\ world[1].ndat = 0
    /\ SkipMsg(1) \in Range(stdout)
    /\ AsConverterLeft(1)
    /\ \E p \in DOMAIN fs : fs[p].kind = "image" /\ fs[p].pix[1] = [src |-> "dat", img |-> 2, echo |-> 1]

\* The echo marker with numeral n, and the path of echo n as the naming
\* convention has it.
MarkerN(m, n) ==
    IF m = "echo" THEN <<"_", "e", "c", "h", "o", Digit(n)>> ELSE <<"_", "e", Digit(n)>>

ExpectedBase(w, n) == w.dir \o w.base \o MarkerN(w.marker, n) \o PhStr(w.ph)

SuffixOf(w) == IF w.imgKind = "gz" THEN NiiGzSuffix ELSE NiiSuffix

\* C6: after the echo loop of an image with N echo times, its files are
\* exactly N image + JSON pairs, pair n at the echo-1 path with the numeral
\* n in place of 1, and the JSON of every later echo holds its echo time.
C6_EchoPairs ==
    (pc = "loop" /\ k >= 1 /\ CurDicom.ndat > 0) =>
        LET w == CurDicom
            N == Len(TEs[1])
        IN  /\ FilesOf(k) = UNION {{ExpectedBase(w, n) \o SuffixOf(w),
                                    ExpectedBase(w, n) \o JsonSuffix} : n \in 1..N}
            /\ Cardinality(FilesOf(k)) = 2 * N
            /\ \A n \in 2..N :
                  /\ fs[ExpectedBase(w, n) \o SuffixOf(w)].kind = "image"
                  /\ fs[ExpectedBase(w, n) \o JsonSuffix].doc[1].EchoTime = TEs[1][n]

\* C7: once echo 0 of a phase image is done, the first-echo image file holds
\* the first-echo slice of the .dat data, in every naming case.
C7_PhaseRewritten ==
    (pc = "echo" /\ i >= 1 /\ CurDicom.ph) =>
        /\ nifti_img_path \in DOMAIN fs
        /\ fs[nifti_img_path].pix = <<[src |-> "dat", img |-> k, echo |-> 0]>>

\* C8: the metadata document loaded from the JSON stays what was loaded while
\* the copies for the later echoes are made and changed.
C8_OriginalUnchanged ==
    (k >= 1 /\ pc \in {"nifti", "dat", "check", "echo"}) =>
        Serialize(metadata[1], heap) = ConverterDoc(CurDicom)

\* The JSON path the echo loop wrote for echo number n (n >= 2).
WrittenJson(n) ==
    WithSuffix(WithSuffix(Replace(nifti, echo_prefix \o <<"1">>, echo_prefix \o <<Digit(n)>>),
                          suffix), JsonSuffix)

\* C9: the JSON written for echo number n differs from the loaded type text
\* in at most the first entry containing "TE", which reads "TE<n>"; without
\* such an entry (none qualifies, empty list, no ImageTypeText at all) the
\* relabel is skipped and the echo loop does not fail.
C9_RelabelOrSkip ==
    /\ ~(pc = "error" /\ err = "KeyError: ImageTypeText")
    /\ (pc = "echo" /\ i >= 2) =>
          LET doc == fs[WrittenJson(i)].doc[1]
              w == CurDicom
          IN  IF w.itt = <<>> THEN "ImageTypeText" \notin DOMAIN doc
              ELSE LET o == w.itt[1]
                       q == {j \in 1..Len(o) : Contains(o[j], TE)}
                   IN  /\ Len(doc.ImageTypeText) = Len(o)
                       /\ \A j \in 1..Len(o) :
                             doc.ImageTypeText[j] =
                                IF j \in q /\ \A m \in q : j <= m
                                THEN TE \o <<Digit(i)>> ELSE o[j]

\* The frame count of the converted image.
NiftiFrames(w) == IF Len(w.shape) = 3 THEN 1 ELSE w.shape[Len(w.shape)]

\* One of the checks made before the echo loop fails for this image.
FailsACheck(w) ==
    \/ ~w.hasJson
    \/ w.imgKind = "none"
    \/ /\ w.tag = "ok" /\ w.raw # <<>> /\ w.ndat > 0
       /\ (w.datFrames # NiftiFrames(w) \/ ~w.sane)

PreLoopErrors ==
    {"ValueError: float", "IndexError: TEs[0]", "ValueError: json", "ValueError: nifti",
     "AttributeError: TEs", "ValueError: frames", "ValueError: sanity"}

\* Image j has not passed its checks (yet, or ever).
NotPassed(j) ==
    \/ k < j
    \/ k = j /\ pc \in {"te", "json", "nifti", "dat", "check"}
    \/ k = j /\ pc = "error" /\ err \in PreLoopErrors

\* Image h went through the echo loop: one image file per kept echo time.
Materialized(h) ==
    Cardinality({p \in FilesOf(h) : fs[p].kind = "image"})
        = Cardinality(KeptPositions(world[h].raw))

\* C10: no file of an image is renamed, overwritten or created before its
\* missing-file, frame-count and sanity checks have passed; when one of them
\* fails the run ends with that image's files as the converter left them,
\* and what was written for earlier images is still there.
C10_ChecksBeforeWrites ==
    \A j \in 1..Len(dicoms_nii_map) :
        /\ NotPassed(j) => AsConverterLeft(j)
        /\ (k = j /\ FailsACheck(world[j])) =>
              pc \in {"te", "json", "nifti", "dat", "check", "error"}
        /\ (k = j /\ pc = "error") =>
              \A h \in 1..(j - 1) :
                  IF world[h].ndat = 0 THEN AsConverterLeft(h) ELSE Materialized(h)

C10_Witness ==
    /\ pc = "error"
    /\ err = "ValueError: sanity"
    /\ k = 2
    /\ AsConverterLeft(2)
    /\ \E p \in DOMAIN fs : fs[p].kind = "image" /\ fs[p].pix[1] = [src |-> "dat", img |-> 1, echo |-> 1]

====
